---- MODULE Spec2Model ----
(***************************************************************************)
(* Model of src/stm32/stm32h7_spi.c: the bus table, spi_setup, spi_prepare *)
(* and spi_transfer, running against a model of the SPI peripheral, the    *)
(* clock/pin collaborators and the hardware timer.                         *)
(***************************************************************************)
EXTENDS Integers, Sequences, FiniteSets, TLC

(***************************************************************************)
(* Bounds of the model.                                                    *)
(***************************************************************************)
\* longest transfer (the code allows 0..255); above MAX_FIFO
MaxLen == 10
\* largest bus index passed to spi_setup (the table holds at most 10 entries)
MaxBus == 10
\* small peripheral clocks and rates enumerated for the divisor search
MaxPclk == 520
MaxRate == 4
\* width in bits of the modelled timer counter (32 in the hardware)
TimerBits == 3
\* ticks in one microsecond, timer_from_us(1)
TicksPerUs == 2
\* most timer ticks between two reads of the timer by a polling loop
MaxPollGap == 1

(***************************************************************************)
(* Program constants.                                                      *)
(***************************************************************************)
MAX_FIFO == 8
\* depth in bytes of the peripheral's transmit and receive FIFOs
HwFifoDepth == 8
\* largest divisor setting of the linear scan in spi_setup
MaxDiv == 7

\* register bit positions (device header values used by the code)
SPI_CFG1_MBR_Pos == 28
SPI_CFG1_DSIZE_Pos == 0
SPI_CFG2_CPHA_Pos == 24
SPI_CFG2_CPOL_Pos == 25
SPI_CFG2_MASTER_Pos == 22
SPI_CFG2_SSM_Pos == 26
SPI_CFG2_SSOE_Pos == 29
SPI_CFG2_AFCNTR_Pos == 31
SPI_CR1_SPE_Pos == 0
SPI_CR1_CSTART_Pos == 9
SPI_CR1_SSI_Pos == 12
SPI_SR_RXP_Pos == 0
SPI_SR_TXP_Pos == 1
SPI_SR_EOT_Pos == 3
SPI_SR_OVR_Pos == 6

\* A register value is the set of positions of its 1 bits.
AllBits == 0..31

\* bits of the unsigned value n (n < 2^w), shifted left by pos, cut to 32 bits
Shl(n, w, pos) == {i + pos : i \in {j \in 0..(w - 1) : (n \div (2 ^ j)) % 2 = 1}} \cap AllBits

Xor(a, b) == (a \ b) \cup (b \ a)

(***************************************************************************)
(* The bus table, lines 62-83, for a build that defines the macros in m.   *)
(***************************************************************************)
Macros == {"CONFIG_MACH_STM32F1", "SPI3", "SPI4", "GPIOI", "SPI5", "SPI6"}

Info(spi, miso, mosi, sck, fn) ==
    [spi |-> spi, miso_pin |-> miso, mosi_pin |-> mosi, sck_pin |-> sck, function |-> fn]

When(c, s) == IF c THEN s ELSE << >>

spi_bus(m) ==
       << Info("SPI2", "PB14", "PB15", "PB13", 5),
          Info("SPI1", "PA6", "PA7", "PA5", 5),
          Info("SPI1", "PB4", "PB5", "PB3", 5) >>
    \o When("CONFIG_MACH_STM32F1" \notin m, << Info("SPI2", "PC2", "PC3", "PB10", 5) >>)
    \o When("SPI3" \in m, << Info("SPI3", "PC11", "PC12", "PC10", 6) >>)
    \o When("SPI4" \in m, << Info("SPI4", "PE13", "PE14", "PE12", 5) >>)
    \o << Info("SPI2", "PI2", "PI3", "PI1", 5) >>
    \o When("SPI5" \in m, << Info("SPI5", "PF8", "PF9", "PF7", 5),
                             Info("SPI5", "PH7", "PF11", "PH6", 5) >>)
    \o When("SPI6" \in m, << Info("SPI6", "PG12", "PG14", "PG13", 5) >>)

\* one DECL_ENUMERATION("spi_bus", name, __COUNTER__) with the
\* DECL_CONSTANT_STR("BUS_PINS_" name, "miso,mosi,sck") that follows it
Enumeration(name, miso, mosi, sck) == [name |-> name, pins |-> << miso, mosi, sck >>]

\* the enumerated bus names of lines 21-59 in declaration order: __COUNTER__
\* gives the k-th declaration the value k - 1
spi_bus_names(m) ==
       << Enumeration("spi2", "PB14", "PB15", "PB13"),
          Enumeration("spi1", "PA6", "PA7", "PA5"),
          Enumeration("spi1a", "PB4", "PB5", "PB3") >>
    \o When("CONFIG_MACH_STM32F1" \notin m, << Enumeration("spi2a", "PC2", "PC3", "PB10") >>)
    \o When("SPI3" \in m, << Enumeration("spi3a", "PC11", "PC12", "PC10") >>)
    \o When("SPI4" \in m, << Enumeration("spi4", "PE13", "PE14", "PE12") >>)
    \o When("GPIOI" \in m, << Enumeration("spi2b", "PI2", "PI3", "PI1") >>)
    \o When("SPI5" \in m, << Enumeration("spi5", "PF8", "PF9", "PF7"),
                             Enumeration("spi5a", "PH7", "PF11", "PH6") >>)
    \o When("SPI6" \in m, << Enumeration("spi6", "PG12", "PG14", "PG13") >>)

\* ARRAY_SIZE(spi_bus)
ARRAY_SIZE(t) == Len(t)

Peripherals == {"SPI1", "SPI2", "SPI3", "SPI4", "SPI5", "SPI6"}

AllPins == UNION {{e.miso_pin, e.mosi_pin, e.sck_pin} : e \in
                    {spi_bus(Macros \ {"CONFIG_MACH_STM32F1"})[i] : i \in 1..10}}

\* the builds the transfer engine is exercised on: an STM32H7 with every
\* optional peripheral, and a variant without the optional ones
FullBuild == Macros \ {"CONFIG_MACH_STM32F1"}
SmallBuild == {}

VARIABLES
    macros,      \* the build configuration: the macros defined
    pclk_hz,     \* the peripheral input clock the clock tree is set to
    halted,      \* "" while running, the shutdown message once shut down
    pclock,      \* peripherals whose clock is enabled
    gpio,        \* pin -> <<function, pull_up>> once routed, << >> before
    regs,        \* peripheral -> its CFG1, CFG2, CR1, CR2 register values
    timer,       \* the hardware timer counter
    pc,          \* position of the running call, "idle" between calls
    config,      \* the struct spi_config last returned by spi_setup
    call,        \* arguments and locals of the running (or last) call
    effects,     \* side effects of the running (or last) call, in order
    nenable,     \* peripheral -> number of enable_pclock calls so far
    ngpio,       \* peripheral -> number of gpio_peripheral calls so far
    buf,         \* the caller's transfer buffer
    txfifo,      \* bytes written to TXDR and not yet shifted out
    rxfifo,      \* bytes received and not yet read from RXDR
    hw           \* the rest of the peripheral's transfer state

vars == << macros, pclk_hz, halted, pclock, gpio, regs, timer, pc, config, call, effects,
           nenable, ngpio, buf, txfifo, rxfifo, hw >>

\* reset values of a peripheral's registers
RegReset == [CFG1 |-> {}, CFG2 |-> {}, CR1 |-> {}, CR2 |-> 0]

HwReset == [eot |-> FALSE, ovr |-> FALSE, shreg |-> << >>, shifted |-> 0, lost |-> 0,
            miso |-> "echo"]

NoConfig == [spi |-> "", div |-> 0, mode |-> 0]

NoCall == [op |-> "none"]

InitWith(builds, clocks) ==
    /\ macros \in builds
    /\ pclk_hz \in clocks
    /\ halted = ""
    /\ pclock = {}
    /\ gpio = [p \in AllPins |-> << >>]
    /\ regs = [s \in Peripherals |-> RegReset]
    /\ timer = 0
    /\ pc = "idle"
    /\ config = NoConfig
    /\ call = NoCall
    /\ effects = << >>
    /\ nenable = [s \in Peripherals |-> 0]
    /\ ngpio = [s \in Peripherals |-> 0]
    /\ buf = << >>
    /\ txfifo = << >>
    /\ rxfifo = << >>
    /\ hw = HwReset

(***************************************************************************)
(* Collaborators of spi_setup: the clock and pin capabilities.             *)
(***************************************************************************)
is_enabled_pclock(spi) == spi \in pclock

get_pclock_frequency(spi) == pclk_hz

\* mutant: the pull-up requested for every pin
Activate_PullUpAll(e) ==
    /\ pclock' = pclock \cup {e.spi}
    /\ gpio' = [gpio EXCEPT ![e.miso_pin] = << e.function, 1 >>,
                            ![e.mosi_pin] = << e.function, 1 >>,
                            ![e.sck_pin] = << e.function, 1 >>]
    /\ nenable' = [nenable EXCEPT ![e.spi] = @ + 1]
    /\ ngpio' = [ngpio EXCEPT ![e.spi] = @ + 3]
    /\ effects' = << << "enable_pclock", e.spi >>,
                     << "gpio_peripheral", e.miso_pin, e.function, 1 >>,
                     << "gpio_peripheral", e.mosi_pin, e.function, 1 >>,
                     << "gpio_peripheral", e.sck_pin, e.function, 1 >> >>

\* effects of enable_pclock(spi) followed by the three gpio_peripheral calls
\* of lines 94-97 for table entry e
Activate(e) ==
    /\ pclock' = pclock \cup {e.spi}
    /\ gpio' = [gpio EXCEPT ![e.miso_pin] = << e.function, 1 >>,
                            ![e.mosi_pin] = << e.function, 0 >>,
                            ![e.sck_pin] = << e.function, 0 >>]
    /\ nenable' = [nenable EXCEPT ![e.spi] = @ + 1]
    /\ ngpio' = [ngpio EXCEPT ![e.spi] = @ + 3]
    /\ effects' = << << "enable_pclock", e.spi >>,
                     << "gpio_peripheral", e.miso_pin, e.function, 1 >>,
                     << "gpio_peripheral", e.mosi_pin, e.function, 0 >>,
                     << "gpio_peripheral", e.sck_pin, e.function, 0 >> >>

\* mutant: the activation repeated on every call
NeedsActivation_Always(spi) == TRUE

\* the guard of line 93
NeedsActivation(spi) == ~is_enabled_pclock(spi)

\* mutant: the scan shifting by div instead of div + 1
RECURSIVE DivScan_ShiftByDiv(_, _, _)
DivScan_ShiftByDiv(pclk, rate, div) ==
    IF (pclk \div (2 ^ div)) > rate /\ div < MaxDiv
    THEN DivScan_ShiftByDiv(pclk, rate, div + 1)
    ELSE div

\* mutant: the scan giving up one divisor short of the cap
RECURSIVE DivScan_StopEarly(_, _, _)
DivScan_StopEarly(pclk, rate, div) ==
    IF (pclk \div (2 ^ (div + 1))) > rate /\ div < MaxDiv - 1
    THEN DivScan_StopEarly(pclk, rate, div + 1)
    ELSE div

\* the linear scan of lines 102-104
RECURSIVE DivScan(_, _, _)
DivScan(pclk, rate, div) ==
    IF (pclk \div (2 ^ (div + 1))) > rate /\ div < MaxDiv
    THEN DivScan(pclk, rate, div + 1)
    ELSE div

\* mutant: the last table entry refused as well
InvalidBus_OffByOne(bus) == bus >= ARRAY_SIZE(spi_bus(macros)) - 1

\* the bounds check of line 88
InvalidBus(bus) == bus >= ARRAY_SIZE(spi_bus(macros))

\* mutant: spi_setup putting the peripheral's registers back to reset
RegsAfterSetup_Reset(spi) == [regs EXCEPT ![spi] = RegReset]

\* lines 85-107 hold no store to the SPI_TypeDef of the entry: its registers
\* are after the call what they were before
RegsAfterSetup(spi) == regs

(***************************************************************************)
(* spi_setup(bus, mode, rate), lines 85-107.                               *)
(***************************************************************************)
spi_setup(bus, mode, rate) ==
    /\ pc = "idle" /\ halted = ""
    /\ call' = [op |-> "spi_setup", bus |-> bus, mode |-> mode, rate |-> rate]
    /\ IF InvalidBus(bus)
       THEN /\ halted' = "Invalid spi bus"
            /\ effects' = << >>
            /\ UNCHANGED << macros, pclk_hz, pclock, gpio, regs, timer, pc, config,
                            nenable, ngpio, buf, txfifo, rxfifo, hw >>
       ELSE LET e == spi_bus(macros)[bus + 1]
                pclk == get_pclock_frequency(e.spi)
            IN
            /\ IF NeedsActivation(e.spi)
               THEN Activate(e)
               ELSE /\ effects' = << >>
                    /\ UNCHANGED << pclock, gpio, nenable, ngpio >>
            /\ config' = [spi |-> e.spi, div |-> DivScan(pclk, rate, 0), mode |-> mode]
            /\ regs' = RegsAfterSetup(e.spi)
            /\ UNCHANGED << macros, pclk_hz, halted, timer, pc, buf, txfifo, rxfifo, hw >>

(***************************************************************************)
(* The timer capability: a free-running counter of TimerBits bits.         *)
(***************************************************************************)
TimerMod == 2 ^ TimerBits

timer_read_time == timer

timer_from_us(us) == us * TicksPerUs

\* (int32_t)(a - b) < 0 at the modelled width
timer_is_before(a, b) == ((a - b) % TimerMod) >= (TimerMod \div 2)

\* the timer advances by one tick; a polling loop reads the timer again
\* within MaxPollGap ticks
Tick ==
    /\ halted = ""
    /\ pc = "p_wait" => call.gap < MaxPollGap
    /\ timer' = (timer + 1) % TimerMod
    /\ call' = IF pc = "p_wait"
               THEN [call EXCEPT !.gap = @ + 1, !.elapsed = @ + 1]
               ELSE call
    /\ UNCHANGED << macros, pclk_hz, halted, pclock, gpio, regs, pc, config, effects,
                    nenable, ngpio, buf, txfifo, rxfifo, hw >>

(***************************************************************************)
(* spi_prepare(config), lines 109-127.                                     *)
(***************************************************************************)
\* the CFG1 value of line 117
Cfg1Value(div) == Shl(div, 8, SPI_CFG1_MBR_Pos) \cup Shl(7, 3, SPI_CFG1_DSIZE_Pos)

\* mutant: the mode shifted to the polarity bit instead of the phase bit
Cfg2Value_ModeAtCpol(mode) ==
    Shl(mode, 8, SPI_CFG2_CPOL_Pos)
    \cup {SPI_CFG2_MASTER_Pos, SPI_CFG2_SSM_Pos, SPI_CFG2_AFCNTR_Pos, SPI_CFG2_SSOE_Pos}

\* the CFG2 value of lines 119-120
Cfg2Value(mode) ==
    Shl(mode, 8, SPI_CFG2_CPHA_Pos)
    \cup {SPI_CFG2_MASTER_Pos, SPI_CFG2_SSM_Pos, SPI_CFG2_AFCNTR_Pos, SPI_CFG2_SSOE_Pos}

\* mutant: any changed CFG2 bit starting the settle wait
PolarityChanged_AnyBit(diff) == diff # {}

\* the test of line 124 on diff = old CFG2 ^ new CFG2
PolarityChanged(diff) == SPI_CFG2_CPOL_Pos \in diff

\* lines 112-122: load CFG1, compute the CFG2 difference, load CFG2
spi_prepare(cfg) ==
    /\ pc = "idle" /\ halted = "" /\ cfg.spi \in Peripherals
    /\ LET spi == cfg.spi
           cfg1 == Cfg1Value(cfg.div)
           cfg2 == Cfg2Value(cfg.mode)
           old == regs[spi].CFG2
           diff == Xor(old, cfg2)
       IN /\ regs' = [regs EXCEPT ![spi].CFG1 = cfg1, ![spi].CFG2 = cfg2]
          /\ call' = [op |-> "spi_prepare", cfg |-> cfg, old |-> old, diff |-> diff,
                      end |-> 0, waits |-> 0, gap |-> 0, elapsed |-> 0]
          /\ effects' = << << "write", spi, "CFG1" >>, << "read", spi, "CFG2" >>,
                           << "write", spi, "CFG2" >> >>
    /\ pc' = "p_time"
    /\ UNCHANGED << macros, pclk_hz, halted, pclock, gpio, timer, config, nenable, ngpio,
                    buf, txfifo, rxfifo, hw >>

\* lines 123-124: compute the end of the settle wait, enter it when the
\* polarity bit changed
prepare_time ==
    /\ pc = "p_time"
    /\ LET end == (timer_read_time + timer_from_us(1)) % TimerMod IN
       IF PolarityChanged(call.diff)
       THEN /\ pc' = "p_wait"
            /\ call' = [call EXCEPT !.end = end, !.waits = @ + 1]
       ELSE /\ pc' = "idle"
            /\ call' = [call EXCEPT !.end = end]
    /\ UNCHANGED << macros, pclk_hz, halted, pclock, gpio, regs, timer, config, effects,
                    nenable, ngpio, buf, txfifo, rxfifo, hw >>

\* one evaluation of the loop condition of line 125
prepare_wait ==
    /\ pc = "p_wait"
    /\ IF timer_is_before(timer_read_time, call.end)
       THEN /\ pc' = "p_wait"
            /\ call' = [call EXCEPT !.gap = 0]
       ELSE /\ pc' = "idle"
            /\ call' = call
    /\ UNCHANGED << macros, pclk_hz, halted, pclock, gpio, regs, timer, config, effects,
                    nenable, ngpio, buf, txfifo, rxfifo, hw >>

(***************************************************************************)
(* The SPI peripheral in master mode with 8-bit frames.  Only one          *)
(* peripheral is enabled (SPE) at a time, so one pair of FIFOs is kept.    *)
(***************************************************************************)
\* what the attached device returns for the transmitted byte b
Response(kind, b) ==
    CASE kind = "echo" -> b
      [] kind = "invert" -> 255 - b
      [] kind = "zero" -> 0

DeviceKinds == {"echo", "invert", "zero"}

Enabled(spi) == SPI_CR1_SPE_Pos \in regs[spi].CR1

Started(spi) == Enabled(spi) /\ SPI_CR1_CSTART_Pos \in regs[spi].CR1

\* the status register as the code reads it
SR(spi) ==
       (IF Enabled(spi) /\ Len(rxfifo) > 0 THEN {SPI_SR_RXP_Pos} ELSE {})
    \cup (IF Enabled(spi) /\ Len(txfifo) < HwFifoDepth THEN {SPI_SR_TXP_Pos} ELSE {})
    \cup (IF hw.eot THEN {SPI_SR_EOT_Pos} ELSE {})
    \cup (IF hw.ovr THEN {SPI_SR_OVR_Pos} ELSE {})

\* the oldest byte of the transmit FIFO moves to the shift register
HwLoad ==
    \E spi \in Peripherals :
        /\ Started(spi)
        /\ Len(txfifo) > 0
        /\ hw.shreg = << >>
        /\ hw.shifted < regs[spi].CR2
        /\ txfifo' = Tail(txfifo)
        /\ hw' = [hw EXCEPT !.shreg = << Head(txfifo) >>]
        /\ UNCHANGED << macros, pclk_hz, halted, pclock, gpio, regs, timer, pc, config, call,
                        effects, nenable, ngpio, buf, rxfifo >>

\* the frame in the shift register is exchanged: the device's byte enters
\* the receive FIFO, or is lost when that is full
HwShift ==
    \E spi \in Peripherals :
        /\ Started(spi)
        /\ hw.shreg # << >>
        /\ IF Len(rxfifo) < HwFifoDepth
           THEN /\ rxfifo' = Append(rxfifo, Response(hw.miso, hw.shreg[1]))
                /\ hw' = [hw EXCEPT !.shifted = @ + 1, !.shreg = << >>]
           ELSE /\ rxfifo' = rxfifo
                /\ hw' = [hw EXCEPT !.shifted = @ + 1, !.shreg = << >>,
                                    !.ovr = TRUE, !.lost = @ + 1]
        /\ UNCHANGED << macros, pclk_hz, halted, pclock, gpio, regs, timer, pc, config, call,
                        effects, nenable, ngpio, buf, txfifo >>

\* the peripheral raises end-of-transfer once TSIZE frames were exchanged,
\* and clears CSTART with it
HwEot ==
    \E spi \in Peripherals :
        /\ Started(spi)
        /\ hw.shifted = regs[spi].CR2
        /\ hw' = [hw EXCEPT !.eot = TRUE]
        /\ regs' = [regs EXCEPT ![spi].CR1 = @ \ {SPI_CR1_CSTART_Pos}]
        /\ UNCHANGED << macros, pclk_hz, halted, pclock, gpio, timer, pc, config, call,
                        effects, nenable, ngpio, buf, txfifo, rxfifo >>

(***************************************************************************)
(* spi_transfer(config, receive_data, len, data), lines 129-159.           *)
(* wptr, data and end are offsets from the start of the buffer.            *)
(***************************************************************************)
Log(entry) == effects' = Append(effects, entry)

\* mutant: enable and start combined in the first CR1 write
CR1_Enable_WithStart == {SPI_CR1_SSI_Pos, SPI_CR1_CSTART_Pos, SPI_CR1_SPE_Pos}

\* the three CR1 values the code writes
CR1_Enable == {SPI_CR1_SSI_Pos, SPI_CR1_SPE_Pos}
CR1_Start == {SPI_CR1_SSI_Pos, SPI_CR1_CSTART_Pos, SPI_CR1_SPE_Pos}
CR1_Disable == {SPI_CR1_SSI_Pos}

\* the value written to IFCR, 0xFFFFFFFF
IFCR_Clear == AllBits

\* mutant: spi_transfer loading the mode of its config into CFG2
spi_transfer_Reprogram(cfg, receive_data, len, data, kind) ==
    /\ pc = "idle" /\ halted = "" /\ cfg.spi \in Peripherals
    /\ Len(data) >= len
    /\ buf' = data
    /\ call' = [op |-> "spi_transfer", cfg |-> cfg, receive_data |-> receive_data,
                len |-> len, wptr |-> 0, data |-> 0, end |-> len, sr |-> {},
                buf0 |-> data, ntx |-> 0, nrx |-> 0, polls |-> 0]
    /\ regs' = [regs EXCEPT ![cfg.spi].CR2 = len, ![cfg.spi].CFG2 = Cfg2Value(cfg.mode)]
    /\ effects' = << << "write", cfg.spi, "CR2", len >> >>
    /\ hw' = [hw EXCEPT !.miso = kind]
    /\ pc' = "t_enable"
    /\ UNCHANGED << macros, pclk_hz, halted, pclock, gpio, timer, config, nenable, ngpio,
                    txfifo, rxfifo >>

\* line 133 and the CR2 write of line 136; kind is the attached device
spi_transfer(cfg, receive_data, len, data, kind) ==
    /\ pc = "idle" /\ halted = "" /\ cfg.spi \in Peripherals
    /\ Len(data) >= len
    /\ buf' = data
    /\ call' = [op |-> "spi_transfer", cfg |-> cfg, receive_data |-> receive_data,
                len |-> len, wptr |-> 0, data |-> 0, end |-> len, sr |-> {},
                buf0 |-> data, ntx |-> 0, nrx |-> 0, polls |-> 0]
    /\ regs' = [regs EXCEPT ![cfg.spi].CR2 = len]
    /\ effects' = << << "write", cfg.spi, "CR2", len >> >>
    /\ hw' = [hw EXCEPT !.miso = kind]
    /\ pc' = "t_enable"
    /\ UNCHANGED << macros, pclk_hz, halted, pclock, gpio, timer, config, nenable, ngpio,
                    txfifo, rxfifo >>

\* line 138
transfer_enable ==
    /\ pc = "t_enable"
    /\ regs' = [regs EXCEPT ![call.cfg.spi].CR1 = CR1_Enable]
    /\ Log(<< "write", call.cfg.spi, "CR1", CR1_Enable >>)
    /\ pc' = "t_start"
    /\ UNCHANGED << macros, pclk_hz, halted, pclock, gpio, timer, config, call, nenable, ngpio,
                    buf, txfifo, rxfifo, hw >>

\* line 139
transfer_start ==
    /\ pc = "t_start"
    /\ regs' = [regs EXCEPT ![call.cfg.spi].CR1 = CR1_Start]
    /\ Log(<< "write", call.cfg.spi, "CR1", CR1_Start >>)
    /\ pc' = "t_loop"
    /\ UNCHANGED << macros, pclk_hz, halted, pclock, gpio, timer, config, call, nenable, ngpio,
                    buf, txfifo, rxfifo, hw >>

\* mutant: the loop of line 141 running once more
MoreToReceive_OneMore(data, end) == data <= end

\* the loop condition of line 141
MoreToReceive(data, end) == data < end

\* lines 141-142: the loop condition and the read of SR
transfer_poll ==
    /\ pc = "t_loop"
    /\ IF MoreToReceive(call.data, call.end)
       THEN /\ call' = [call EXCEPT
                          !.sr = SR(call.cfg.spi) \cap {SPI_SR_TXP_Pos, SPI_SR_RXP_Pos},
                          !.polls = 1]
            /\ pc' = "t_tx"
       ELSE /\ call' = call
            /\ pc' = "t_eot"
    /\ UNCHANGED << macros, pclk_hz, halted, pclock, gpio, regs, timer, config, effects,
                    nenable, ngpio, buf, txfifo, rxfifo, hw >>

\* mutant: a send window of no bytes
MaySend_EmptyWindow(sr, wptr, data, end) ==
    sr = {SPI_SR_TXP_Pos} /\ wptr < end /\ wptr < data

\* mutant: sending whenever TXP is set, whatever RXP
MaySend_AnyRx(sr, wptr, data, end) ==
    SPI_SR_TXP_Pos \in sr /\ wptr < end /\ wptr < data + MAX_FIFO

\* mutant: the window test of line 143 left out
MaySend_NoWindow(sr, wptr, data, end) == sr = {SPI_SR_TXP_Pos} /\ wptr < end

\* the condition of line 143
MaySend(sr, wptr, data, end) ==
    sr = {SPI_SR_TXP_Pos} /\ wptr < end /\ wptr < data + MAX_FIFO

\* the condition of line 145
NoRx(sr) == SPI_SR_RXP_Pos \notin sr

\* lines 143-146: write the next byte to TXDR, then leave the iteration
\* when no byte is available (sr lives only inside one iteration)
transfer_tx ==
    /\ pc = "t_tx"
    /\ LET send == MaySend(call.sr, call.wptr, call.data, call.end)
           again == NoRx(call.sr)
       IN /\ txfifo' = IF send THEN Append(txfifo, buf[call.wptr + 1]) ELSE txfifo
          /\ call' = [call EXCEPT !.wptr = IF send THEN @ + 1 ELSE @,
                                  !.ntx = IF send THEN @ + 1 ELSE @,
                                  !.sr = IF again THEN {} ELSE @]
          /\ pc' = IF again THEN "t_loop" ELSE "t_rx"
    /\ UNCHANGED << macros, pclk_hz, halted, pclock, gpio, regs, timer, config, effects,
                    nenable, ngpio, buf, rxfifo, hw >>

\* mutant: the received byte stored at the send cursor
Store_AtSendCursor(b, receive_data, pos, rdata) ==
    IF receive_data /\ call.wptr < Len(b) THEN [b EXCEPT ![call.wptr + 1] = rdata] ELSE b

\* mutant: the received byte stored one position too far
Store_OffByOne(b, receive_data, pos, rdata) ==
    IF receive_data /\ pos + 2 <= Len(b) THEN [b EXCEPT ![pos + 2] = rdata] ELSE b

\* mutant: the received byte stored whatever receive_data says
Store_Always(b, receive_data, pos, rdata) == [b EXCEPT ![pos + 1] = rdata]

\* the byte the code stores at the receive cursor, lines 148-149
Store(b, receive_data, pos, rdata) ==
    IF receive_data THEN [b EXCEPT ![pos + 1] = rdata] ELSE b

\* lines 147-150: read RXDR, store the byte if asked, advance data
transfer_rx ==
    /\ pc = "t_rx"
    /\ LET rdata == IF Len(rxfifo) > 0 THEN Head(rxfifo) ELSE 0 IN
       /\ buf' = Store(buf, call.receive_data, call.data, rdata)
       /\ rxfifo' = IF Len(rxfifo) > 0 THEN Tail(rxfifo) ELSE rxfifo
    /\ call' = [call EXCEPT !.data = @ + 1, !.nrx = @ + 1, !.sr = {}]
    /\ pc' = "t_loop"
    /\ UNCHANGED << macros, pclk_hz, halted, pclock, gpio, regs, timer, config, effects,
                    nenable, ngpio, txfifo, hw >>

\* mutant: the end-of-transfer wait left out
EotSet_NoWait(sr) == TRUE

\* the exit condition of the loop of line 153
EotSet(sr) == SPI_SR_EOT_Pos \in sr

\* lines 153-154: a read of SR that finds end-of-transfer set
transfer_eot ==
    /\ pc = "t_eot"
    /\ EotSet(SR(call.cfg.spi))
    /\ pc' = "t_clear"
    /\ UNCHANGED << macros, pclk_hz, halted, pclock, gpio, regs, timer, config, call, effects,
                    nenable, ngpio, buf, txfifo, rxfifo, hw >>

\* line 157: writing 1 to a flag's bit in IFCR clears the flag
transfer_clear ==
    /\ pc = "t_clear"
    /\ hw' = [hw EXCEPT !.eot = IF SPI_SR_EOT_Pos \in IFCR_Clear THEN FALSE ELSE @,
                        !.ovr = IF SPI_SR_OVR_Pos \in IFCR_Clear THEN FALSE ELSE @]
    /\ Log(<< "write", call.cfg.spi, "IFCR", IFCR_Clear >>)
    /\ pc' = "t_disable"
    /\ UNCHANGED << macros, pclk_hz, halted, pclock, gpio, regs, timer, config, call, nenable,
                    ngpio, buf, txfifo, rxfifo >>

\* line 158: clearing SPE also empties the FIFOs and the frame counter
transfer_disable ==
    /\ pc = "t_disable"
    /\ regs' = [regs EXCEPT ![call.cfg.spi].CR1 = CR1_Disable]
    /\ Log(<< "write", call.cfg.spi, "CR1", CR1_Disable >>)
    /\ txfifo' = << >>
    /\ rxfifo' = << >>
    /\ hw' = [hw EXCEPT !.shifted = 0, !.shreg = << >>]
    /\ pc' = "idle"
    /\ UNCHANGED << macros, pclk_hz, halted, pclock, gpio, timer, config, call, nenable, ngpio,
                    buf >>

(***************************************************************************)
(* Inputs.                                                                 *)
(***************************************************************************)
\* the buffer of n bytes base, base+1, ... (mod 256)
Pattern(base, n) == [i \in 1..n |-> (base + i - 1) % 256]

Buffers == {Pattern(250, n) : n \in 0..MaxLen} \cup {Pattern(7, n) : n \in 1..3}

Modes == 0..3

(***************************************************************************)
(* Spec: the three operations on one bus of a full STM32H7 build, with     *)
(* modes that keep the clock polarity (spi_prepare then returns without    *)
(* the settle wait, which SpecPrepare covers), and transfers of every      *)
(* length up to MaxLen against every device kind.                          *)
(***************************************************************************)
Init == InitWith({FullBuild}, {100000000})

Setup == \E mode \in {0, 1} : spi_setup(1, mode, 1000000)

Prepare == spi_prepare(config)

Transfer ==
    \E receive_data \in BOOLEAN, data \in Buffers, kind \in DeviceKinds :
        spi_transfer(config, receive_data, Len(data), data, kind)

Next ==
    \/ Setup
    \/ Prepare
    \/ prepare_time
    \/ Transfer
    \/ transfer_enable
    \/ transfer_start
    \/ transfer_poll
    \/ transfer_tx
    \/ transfer_rx
    \/ transfer_eot
    \/ transfer_clear
    \/ transfer_disable
    \/ HwLoad
    \/ HwShift
    \/ HwEot

Spec == Init /\ [][Next]_vars

(***************************************************************************)
(* Properties of spi_transfer, under Spec.                                 *)
(***************************************************************************)
InTransfer == call.op = "spi_transfer"

\* the transfer has returned
Returned == InTransfer /\ pc = "idle"

\* positions of the call after the exchange loop
AfterLoop == {"t_eot", "t_clear", "t_disable", "idle"}

IsWrite(e, spi, reg, val) == e[1] = "write" /\ e[2] = spi /\ e[3] = reg /\ e[4] = val

\* C1: during spi_transfer the send cursor is never more than MAX_FIFO = 8
\* positions ahead of the receive cursor, the bytes written to TXDR and not
\* yet read from RXDR never exceed 8, and the receive FIFO of depth 8 never
\* overruns (no received byte is lost).
C1_NoOverrun ==
    InTransfer =>
        /\ call.data <= call.wptr
        /\ call.wptr - call.data <= 8
        /\ call.ntx - call.nrx <= 8
        /\ Len(txfifo) + Len(hw.shreg) + Len(rxfifo) <= 8
        /\ pc # "idle" => call.ntx - call.nrx = Len(txfifo) + Len(hw.shreg) + Len(rxfifo)
        /\ Len(rxfifo) <= HwFifoDepth
        /\ hw.lost = 0
        /\ ~hw.ovr

\* the send cursor stands at the window limit with bytes left to send and
\* the receive FIFO full
C1_Witness ==
    /\ InTransfer
    /\ call.wptr = call.data + MAX_FIFO
    /\ call.wptr < call.end
    /\ Len(rxfifo) = HwFifoDepth

\* C2: a transfer with receive_data set against a device that echoes every
\* byte ends with the buffer equal to its initial contents.
C2_EchoRoundTrip ==
    (Returned /\ call.receive_data /\ hw.miso = "echo") =>
        /\ buf = call.buf0
        /\ call.nrx = call.len

C2_Witness ==
    /\ Returned /\ call.receive_data /\ hw.miso = "echo"
    /\ call.len > MAX_FIFO
    /\ buf = call.buf0

\* C3: a transfer with receive_data clear never writes the buffer, whatever
\* the device returns; every received byte is still read from RXDR and the
\* receive cursor advances to len.
C3_NoStore ==
    (InTransfer /\ ~call.receive_data) =>
        /\ buf = call.buf0
        /\ call.nrx = call.data
        /\ pc # "idle" => Len(rxfifo) + call.nrx = hw.shifted
        /\ pc \in AfterLoop => (call.data = call.len /\ call.nrx = call.len)

C3_Witness ==
    /\ Returned /\ ~call.receive_data /\ hw.miso = "invert"
    /\ call.len > MAX_FIFO
    /\ call.nrx = call.len

\* C8: a transfer of length 0 writes CR2 = 0, CR1 = SSI|SPE and
\* CR1 = SSI|SPE|CSTART, runs no iteration of the exchange loop (no SR poll
\* in it, no TXDR write, no RXDR read, buffer untouched), and ends with
\* IFCR = all ones and CR1 = SSI.
C8_ZeroLength ==
    (InTransfer /\ call.len = 0) =>
        LET spi == call.cfg.spi IN
        /\ pc \notin {"t_tx", "t_rx"}
        /\ call.polls = 0 /\ call.ntx = 0 /\ call.nrx = 0
        /\ txfifo = << >> /\ rxfifo = << >> /\ hw.shreg = << >> /\ hw.shifted = 0
        /\ buf = call.buf0
        /\ Len(effects) = (CASE pc = "t_enable" -> 1
                             [] pc = "t_start" -> 2
                             [] pc \in {"t_loop", "t_eot", "t_clear"} -> 3
                             [] pc = "t_disable" -> 4
                             [] pc = "idle" -> 5)
        /\ IsWrite(effects[1], spi, "CR2", 0)
        /\ Len(effects) >= 2 => IsWrite(effects[2], spi, "CR1", CR1_Enable)
        /\ Len(effects) >= 3 => IsWrite(effects[3], spi, "CR1", CR1_Start)
        /\ Len(effects) >= 4 => IsWrite(effects[4], spi, "IFCR", AllBits)
        /\ Len(effects) >= 5 => IsWrite(effects[5], spi, "CR1", {SPI_CR1_SSI_Pos})

C8_Witness ==
    /\ Returned /\ call.len = 0
    /\ Len(effects) = 5
    /\ regs[call.cfg.spi].CR1 = {SPI_CR1_SSI_Pos}

\* C9: every transfer begins by writing the size to CR2, then SSI|SPE to CR1,
\* then SSI|SPE|CSTART to CR1; nothing is written to TXDR and SR is not
\* polled before the second CR1 write, and no CR1 write sets CSTART unless
\* the CR1 write before it set SPE without CSTART.
C9_StartOrder ==
    InTransfer =>
        LET spi == call.cfg.spi IN
        /\ Len(effects) >= 1 /\ IsWrite(effects[1], spi, "CR2", call.len)
        /\ pc # "t_enable" =>
              (Len(effects) >= 2 /\ IsWrite(effects[2], spi, "CR1", {SPI_CR1_SSI_Pos, SPI_CR1_SPE_Pos}))
        /\ pc \notin {"t_enable", "t_start"} =>
              (Len(effects) >= 3
               /\ IsWrite(effects[3], spi, "CR1",
                          {SPI_CR1_SSI_Pos, SPI_CR1_SPE_Pos, SPI_CR1_CSTART_Pos}))
        /\ (call.ntx > 0 \/ call.polls > 0 \/ Len(txfifo) > 0 \/ hw.shifted > 0)
              => Len(effects) >= 3
        /\ \A i \in 1..Len(effects) :
              (effects[i][3] = "CR1" /\ SPI_CR1_CSTART_Pos \in effects[i][4]) =>
                  /\ i > 1
                  /\ effects[i - 1][3] = "CR1"
                  /\ SPI_CR1_SPE_Pos \in effects[i - 1][4]
                  /\ SPI_CR1_CSTART_Pos \notin effects[i - 1][4]
        /\ Started(spi) => SPI_CR1_SSI_Pos \in regs[spi].CR1

\* the first byte has been written to TXDR, after the three start writes
C9_Witness ==
    /\ InTransfer /\ call.ntx = 1 /\ Len(txfifo) = 1
    /\ Len(effects) = 3

\* where the call stands when it clears the flags, disables and returns
C10_StopState ==
    InTransfer =>
        LET spi == call.cfg.spi IN
        /\ halted = ""
        /\ pc \in AfterLoop => (call.data = call.len /\ call.nrx = call.len)
        /\ pc \in {"t_clear", "t_disable", "idle"} => (rxfifo = << >> /\ hw.shreg = << >>)
        /\ pc = "t_clear" => (hw.eot /\ hw.shifted = call.len)
        /\ pc \in {"t_enable", "t_start", "t_loop", "t_tx", "t_rx", "t_eot", "t_clear"} =>
              /\ \A i \in 1..Len(effects) : effects[i][3] # "IFCR"
              /\ Len(effects) <= 3
        /\ pc = "t_disable" => (Len(effects) = 4 /\ IsWrite(effects[4], spi, "IFCR", AllBits))
        /\ pc = "idle" =>
              /\ Len(effects) = 5
              /\ IsWrite(effects[4], spi, "IFCR", AllBits)
              /\ IsWrite(effects[5], spi, "CR1", {SPI_CR1_SSI_Pos})
              /\ regs[spi].CR1 = {SPI_CR1_SSI_Pos}
              /\ ~hw.eot

\* a step of the call that advances the receive cursor finds a byte in the
\* receive FIFO, and a step that leaves the end-of-transfer wait finds EOT set
C10_Step ==
    /\ (InTransfer /\ call'.op = "spi_transfer" /\ pc # "idle" /\ call'.data > call.data)
          => Len(rxfifo) > 0
    /\ (pc = "t_eot" /\ pc' # "t_eot") => hw.eot

\* C10: IFCR is written and the peripheral disabled only after the receive
\* cursor reached len and end-of-transfer was read as set; while RXP or EOT
\* stay clear the call stays in its loop and no error is raised; on return
\* CR1 holds SSI only.
C10_StopOrder == []C10_StopState /\ [][C10_Step]_vars

C10_Witness ==
    /\ Returned /\ call.len > MAX_FIFO
    /\ regs[call.cfg.spi].CR1 = {SPI_CR1_SSI_Pos}
    /\ Len(effects) = 5

(***************************************************************************)
(* SpecSetup: spi_setup alone, on four builds, for every bus index up to   *)
(* MaxBus.                                                                 *)
(***************************************************************************)
Builds == {FullBuild, SmallBuild, {"CONFIG_MACH_STM32F1"}, {"SPI3", "SPI4", "SPI5", "SPI6"}}

InitSetup == InitWith(Builds, {100000000})

SetupAny == \E bus \in 0..MaxBus, mode \in {0, 3} : spi_setup(bus, mode, 1000000)

NextSetup == SetupAny

SpecSetup == InitSetup /\ [][NextSetup]_vars

(***************************************************************************)
(* SpecDiv: spi_setup on two buses of the full build, for every peripheral *)
(* clock up to MaxPclk and every rate up to MaxRate, and for the           *)
(* 100 MHz / 1 MHz case.                                                   *)
(***************************************************************************)
Pclks == 0..MaxPclk \cup {100000000}

Rates == 0..MaxRate \cup {1000000}

InitDiv == InitWith({FullBuild}, Pclks)

SetupRate == \E bus \in {0, 1}, rate \in Rates : spi_setup(bus, 0, rate)

NextDiv == SetupRate

SpecDiv == InitDiv /\ [][NextDiv]_vars

(***************************************************************************)
(* SpecPrepare: spi_setup and spi_prepare on two peripherals with every    *)
(* mode, the timer running freely.                                         *)
(***************************************************************************)
SetupMode == \E bus \in {0, 1}, mode \in Modes : spi_setup(bus, mode, 1000000)

NextPrepare ==
    \/ SetupMode
    \/ Prepare
    \/ prepare_time
    \/ prepare_wait
    \/ Tick

SpecPrepare == Init /\ [][NextPrepare]_vars

(***************************************************************************)
(* SpecLive: transfers of every length 1..MaxLen against a peripheral that *)
(* responds.  The steps of a running spi_transfer are taken one after the  *)
(* other (the call runs to completion on its processor), and the           *)
(* peripheral keeps moving frames and raises EOT; nothing obliges the      *)
(* caller to start a call.                                                 *)
(***************************************************************************)
SetupLive == spi_setup(1, 0, 1000000)

TransferLive ==
    \E receive_data \in BOOLEAN, n \in 1..MaxLen :
        spi_transfer(config, receive_data, n, Pattern(250, n), "invert")

NextLive ==
    \/ SetupLive
    \/ TransferLive
    \/ transfer_enable
    \/ transfer_start
    \/ transfer_poll
    \/ transfer_tx
    \/ transfer_rx
    \/ transfer_eot
    \/ transfer_clear
    \/ transfer_disable
    \/ HwLoad
    \/ HwShift
    \/ HwEot

SpecLive ==
    /\ Init /\ [][NextLive]_vars
    /\ WF_vars(transfer_enable) /\ WF_vars(transfer_start)
    /\ WF_vars(transfer_poll) /\ WF_vars(transfer_tx) /\ WF_vars(transfer_rx)
    /\ WF_vars(transfer_eot) /\ WF_vars(transfer_clear) /\ WF_vars(transfer_disable)
    /\ WF_vars(HwLoad) /\ WF_vars(HwShift) /\ WF_vars(HwEot)

(***************************************************************************)
(* SpecRegs: spi_prepare on one peripheral with every mode and with rates  *)
(* that give the divisors 0, 6 and 7, the timer running freely.            *)
(***************************************************************************)
PrepareRates == {1, 1000000, 50000000}

SetupDivMode == \E mode \in Modes, rate \in PrepareRates : spi_setup(0, mode, rate)

NextRegs ==
    \/ SetupDivMode
    \/ Prepare
    \/ prepare_time
    \/ prepare_wait
    \/ Tick

SpecRegs == Init /\ [][NextRegs]_vars

(***************************************************************************)
(* Properties of spi_setup.                                                *)
(***************************************************************************)
\* spi_setup has returned a configuration
SetupReturned == call.op = "spi_setup" /\ halted = ""

\* the divisor the specification asks for: the smallest d in 0..7 with
\* (pclk >> (d+1)) <= rate, and 7 when there is none
SmallestDiv(pclk, rate) ==
    LET ok == {d \in 0..7 : (pclk \div (2 ^ (d + 1))) <= rate}
    IN IF ok = {} THEN 7 ELSE CHOOSE d \in ok : \A e \in ok : d <= e

\* C4: for a valid bus index spi_setup returns div = the smallest d in 0..7
\* with (pclk >> (d+1)) <= rate, and 7 when no d in 0..7 satisfies it;
\* pclk = 100000000 and rate = 1000000 give div = 6.
C4_Divisor ==
    SetupReturned =>
        /\ config.div = SmallestDiv(pclk_hz, call.rate)
        /\ (pclk_hz = 100000000 /\ call.rate = 1000000) => config.div = 6
        /\ config.spi = spi_bus(macros)[call.bus + 1].spi
        /\ config.mode = call.mode

\* a call where no divisor meets the rate, so the scan stops at the cap
C4_Witness ==
    /\ SetupReturned
    /\ (pclk_hz \div 256) > call.rate
    /\ config.div = 7

\* the activation counters and the clock state agree
C5_Counts ==
    /\ \A s \in Peripherals :
          /\ nenable[s] <= 1
          /\ ngpio[s] = 3 * nenable[s]
          /\ (s \in pclock) <=> (nenable[s] = 1)
    /\ SetupReturned => nenable[config.spi] = 1

\* what a returning spi_setup does to the clock and the pins
C5_Step ==
    (call'.op = "spi_setup" /\ halted' = "") =>
        IF config'.spi \in pclock
        THEN /\ effects' = << >>
             /\ UNCHANGED << pclock, gpio, nenable, ngpio >>
        ELSE /\ Len(effects') = 4
             /\ effects'[1] = << "enable_pclock", config'.spi >>
             /\ \A i \in 2..4 : effects'[i][1] = "gpio_peripheral"
             /\ nenable'[config'.spi] = 1
             /\ pclock' = pclock \cup {config'.spi}

\* C5: enable_pclock and the three gpio_peripheral calls happen exactly once
\* per peripheral: the first spi_setup naming a peripheral performs them, and
\* a spi_setup on a peripheral already activated performs none.
C5_ActivateOnce == []C5_Counts /\ [][C5_Step]_vars

\* spi1a is set up after spi1: SPI1 was activated once, with spi1's pins
C5_Witness ==
    /\ SetupReturned /\ call.bus = 2
    /\ effects = << >>
    /\ nenable["SPI1"] = 1 /\ ngpio["SPI1"] = 3
    /\ gpio["PA6"] # << >> /\ gpio["PB4"] = << >>

\* when the firmware is shut down
C6_Halted ==
    /\ halted \in {"", "Invalid spi bus"}
    /\ halted # "" =>
          /\ call.op = "spi_setup"
          /\ call.bus >= Len(spi_bus(macros))
          /\ effects = << >>
    /\ (call.op = "spi_setup" /\ call.bus >= Len(spi_bus(macros))) => halted = "Invalid spi bus"

\* what a spi_setup with an invalid bus index does, and nothing runs after it
C6_Step ==
    /\ (halted = "" /\ call'.op = "spi_setup" /\ call'.bus >= Len(spi_bus(macros))) =>
          /\ halted' = "Invalid spi bus"
          /\ effects' = << >>
          /\ UNCHANGED << pclock, gpio, regs, config, nenable, ngpio, pc >>
    /\ halted # "" => UNCHANGED vars

\* C6: for a bus index at or beyond the size of the table spi_setup shuts
\* down with "Invalid spi bus" and changes nothing: no clock enabled, no pin
\* routed, no register written, no configuration returned.
C6_InvalidBus == []C6_Halted /\ [][C6_Step]_vars

\* the first index beyond the table, after some peripheral was activated
C6_Witness ==
    /\ halted = "Invalid spi bus"
    /\ call.bus = Len(spi_bus(macros))
    /\ pclock # {}
    /\ config.spi \in pclock

(***************************************************************************)
(* Properties of spi_prepare, under SpecPrepare.                           *)
(***************************************************************************)
InPrepare == call.op = "spi_prepare"

\* the polarity bit of mode (bit 1) as the code places it in CFG2
ModePolarity(mode) == (mode \div 2) % 2 = 1

\* when spi_prepare waits
C7_Wait ==
    InPrepare =>
        LET flipped == (SPI_CFG2_CPOL_Pos \in call.old) # ModePolarity(call.cfg.mode) IN
        /\ call.waits <= 1
        /\ (SPI_CFG2_CPOL_Pos \in regs[call.cfg.spi].CFG2) = ModePolarity(call.cfg.mode)
        /\ pc = "p_wait" => (flipped /\ call.waits = 1)
        /\ pc = "idle" =>
              /\ (call.waits = 1) <=> flipped
              /\ call.waits = 1 => call.elapsed >= TicksPerUs
              /\ call.waits = 0 => call.elapsed = 0

\* a spi_prepare right after a spi_prepare with the same mode on the same
\* peripheral finds the polarity unchanged
C7_Step ==
    (/\ pc = "idle" /\ InPrepare /\ pc' = "p_time"
     /\ call'.cfg.spi = call.cfg.spi
     /\ call'.cfg.mode = call.cfg.mode)
        => (SPI_CFG2_CPOL_Pos \in call'.old) = ModePolarity(call'.cfg.mode)

\* C7: spi_prepare waits exactly when the polarity bit of the CFG2 value it
\* writes differs from the polarity bit CFG2 held before; the wait happens
\* once and lasts until the timer advanced timer_from_us(1) ticks.
C7_SettleWait == []C7_Wait /\ [][C7_Step]_vars

\* a prepare that flipped the polarity from 1 back to 0 has waited and returned
C7_Witness ==
    /\ InPrepare /\ pc = "idle"
    /\ call.waits = 1
    /\ SPI_CFG2_CPOL_Pos \in call.old
    /\ ~ModePolarity(call.cfg.mode)
    /\ call.elapsed >= TicksPerUs

(***************************************************************************)
(* The send decision of one polling iteration, under Spec.                 *)
(***************************************************************************)
\* the step of the call that executes lines 143-146
SendStep == InTransfer /\ pc = "t_tx" /\ pc' # "t_tx"

\* the send cursor is short of len and inside the MAX_FIFO window
InWindow == call.wptr < call.end /\ call.wptr < call.data + MAX_FIFO

\* the step writes the next outbound byte to TXDR and advances wptr
SendsNext ==
    /\ txfifo' = Append(txfifo, buf[call.wptr + 1])
    /\ call'.wptr = call.wptr + 1
    /\ call'.ntx = call.ntx + 1

\* the step writes nothing to TXDR
SendsNothing == txfifo' = txfifo /\ call'.wptr = call.wptr /\ call'.ntx = call.ntx

\* C11 as stated: in an iteration with TXP set and the send cursor short of
\* len and inside the window, the next byte is written to TXDR and wptr
\* advances, whatever RXP is.
C11_SendStep_Any == (SendStep /\ SPI_SR_TXP_Pos \in call.sr /\ InWindow) => SendsNext

C11_SendWheneverTxp == [][C11_SendStep_Any]_vars

\* the send decision of the code: a byte is written exactly when TXP is set,
\* RXP is clear and the send cursor is short of len and inside the window
C11_SendStep_NoRx ==
    SendStep =>
        IF call.sr = {SPI_SR_TXP_Pos} /\ InWindow
        THEN SendsNext /\ pc' = "t_loop"
        ELSE /\ SendsNothing
             /\ pc' = IF SPI_SR_RXP_Pos \in call.sr THEN "t_rx" ELSE "t_loop"

\* C11 (amended): in an iteration with TXP set, RXP clear, and the send
\* cursor short of len and inside the window, the next byte is written to
\* TXDR and wptr advances; with RXP set as well nothing is written in that
\* iteration, which reads one received byte instead.
C11_SendOnlyWithoutRx == [][C11_SendStep_NoRx]_vars

\* an iteration found TXP and RXP both set with a byte left to send inside
\* the window, and went on to read RXDR without writing TXDR
C11_Witness ==
    /\ InTransfer /\ pc = "t_rx"
    /\ call.sr = {SPI_SR_TXP_Pos, SPI_SR_RXP_Pos}
    /\ InWindow
    /\ call.ntx = call.wptr

(***************************************************************************)
(* The rate realised by the returned divisor, under SpecDiv.               *)
(***************************************************************************)
\* the bit rate the peripheral runs at with divisor div: pclk >> (div + 1)
RealisedRate(pclk, div) == pclk \div (2 ^ (div + 1))

\* C12 as stated: for every valid bus, every pclk and every rate > 0 the
\* realised rate pclk >> (div+1) does not exceed the requested rate.
C12_NeverAboveRate ==
    (SetupReturned /\ call.rate > 0) =>
        RealisedRate(pclk_hz, config.div) <= call.rate

\* C12 (amended): for every valid bus and every rate > 0 the realised rate
\* does not exceed the requested rate whenever the slowest rate pclk >> 8 does
\* not; when even pclk >> 8 exceeds the request, div is 7 and the realised
\* rate pclk >> 8 is above the requested rate.
C12_AtMostRateUnlessCapped ==
    (SetupReturned /\ call.rate > 0) =>
        IF RealisedRate(pclk_hz, MaxDiv) <= call.rate
        THEN RealisedRate(pclk_hz, config.div) <= call.rate
        ELSE /\ config.div = MaxDiv
             /\ RealisedRate(pclk_hz, config.div) > call.rate

\* a call that only the last divisor satisfies: pclk >> 7 is above the rate
\* and pclk >> 8 is not
C12_Witness ==
    /\ SetupReturned /\ call.rate > 0
    /\ RealisedRate(pclk_hz, MaxDiv - 1) > call.rate
    /\ RealisedRate(pclk_hz, MaxDiv) <= call.rate
    /\ config.div = MaxDiv

(***************************************************************************)
(* The enumerated bus names against the bus table, under SpecSetup.        *)
(***************************************************************************)
\* the three pins of a table entry in BUS_PINS order
EntryPins(e) == << e.miso_pin, e.mosi_pin, e.sck_pin >>

\* the pins of GPIO port I, which exists only where GPIOI is defined
PortIPins == {"PI1", "PI2", "PI3"}

\* the peripheral and the pins of table entry e exist on the variant m
PresentOn(m, e) ==
    /\ e.spi \in {"SPI1", "SPI2"} \cup (m \cap {"SPI3", "SPI4", "SPI5", "SPI6"})
    /\ ({e.miso_pin, e.mosi_pin, e.sck_pin} \cap PortIPins # {}) => "GPIOI" \in m

\* the table and the enumeration of the build m agree
TableMatchesNames(m) ==
    LET t == spi_bus(m)
        n == spi_bus_names(m)
    IN /\ ARRAY_SIZE(t) = Len(n)
       /\ \A k \in 1..Len(n) : k <= ARRAY_SIZE(t) /\ EntryPins(t[k]) = n[k].pins
       /\ \A k \in 1..ARRAY_SIZE(t) : PresentOn(m, t[k])

\* C13 as stated: on every build the table has as many entries as there are
\* enumerated names, the k-th name's BUS_PINS are the pins of table entry k,
\* no entry's pins or peripheral are absent on the variant, and so a bus
\* index obtained from a name resolves to that name's pins.
C13_TableMatchesNames ==
    /\ TableMatchesNames(macros)
    /\ (SetupReturned /\ call.bus < Len(spi_bus_names(macros))) =>
          /\ config.spi = spi_bus(macros)[call.bus + 1].spi
          /\ EntryPins(spi_bus(macros)[call.bus + 1])
                 = spi_bus_names(macros)[call.bus + 1].pins

(***************************************************************************)
(* What spi_setup leaves alone, under Spec.                                *)
(***************************************************************************)
\* a step that is a call of spi_setup
SetupStep == pc = "idle" /\ pc' = "idle" /\ call'.op = "spi_setup"

\* register accesses among the side effects of the last call
RegisterAccesses == {i \in 1..Len(effects) : effects[i][1] \in {"write", "read"}}

\* spi_setup leaves every register and FIFO of every peripheral as it was and
\* returns the entry's peripheral, the scanned divisor and the mode passed in
C14_Step ==
    SetupStep =>
        /\ regs' = regs
        /\ txfifo' = txfifo /\ rxfifo' = rxfifo /\ hw' = hw
        /\ RegisterAccesses' = {}
        /\ halted' = "" =>
              config' = [spi  |-> spi_bus(macros)[call'.bus + 1].spi,
                         div  |-> SmallestDiv(pclk_hz, call'.rate),
                         mode |-> call'.mode]

\* C14: spi_setup writes no SPI register (CFG1, CFG2, CR1, CR2, IFCR, TXDR):
\* the registers are the same before and after every spi_setup, and the
\* returned config carries the table entry's peripheral, the computed div
\* and the mode unchanged.
C14_SetupFrame == [][C14_Step]_vars

\* spi_setup returned a config for mode 0 on a peripheral whose registers
\* still hold what an earlier prepare for mode 1 and a transfer left there
C14_Witness ==
    /\ SetupReturned
    /\ config.mode = 0
    /\ regs[config.spi].CFG1 = Cfg1Value(config.div)
    /\ regs[config.spi].CFG2 = Cfg2Value(1)
    /\ regs[config.spi].CR1 = CR1_Disable
    /\ regs[config.spi].CR2 > 0

(***************************************************************************)
(* Termination of spi_transfer, under SpecLive.                            *)
(***************************************************************************)
\* spi_transfer has been entered with a length of at least one
TransferEntered == InTransfer /\ pc = "t_enable" /\ call.len >= 1

\* the call has returned after len writes of TXDR and len reads of RXDR
ReturnedExact ==
    /\ Returned
    /\ call.ntx = call.len /\ call.nrx = call.len
    /\ call.wptr = call.end /\ call.data = call.end

\* C15: against a peripheral that responds (TXP signalled while there is
\* room, every byte written to TXDR producing a received byte, EOT raised
\* once len frames were exchanged) every spi_transfer of length >= 1
\* eventually returns, having written exactly len bytes to TXDR and read
\* exactly len bytes from RXDR: the polling loop is never stuck.
C15_Terminates == TransferEntered ~> ReturnedExact

\* a transfer longer than the send window has returned with every byte
\* written and read
C15_Witness ==
    /\ ReturnedExact
    /\ call.len > MAX_FIFO
    /\ hw.lost = 0

(***************************************************************************)
(* The two cursors and the buffer during spi_transfer, under Spec.         *)
(***************************************************************************)
\* the cursors are ordered; what is in flight and what is in the buffer are
\* what the cursors say
C16_Cursors ==
    InTransfer =>
        /\ call.data <= call.wptr /\ call.wptr <= call.end
        /\ call.ntx = call.wptr /\ call.nrx = call.data
        \* bytes written to TXDR and not yet exchanged: initial contents, in order
        /\ pc # "idle" =>
              /\ hw.shreg \o txfifo = SubSeq(call.buf0, hw.shifted + 1, call.wptr)
              /\ rxfifo = [i \in 1..(hw.shifted - call.data) |->
                              Response(hw.miso, call.buf0[call.data + i])]
        \* positions at or after the receive cursor still hold the original bytes
        /\ \A i \in (call.data + 1)..Len(buf) : buf[i] = call.buf0[i]
        \* the i-th received byte is at position i
        /\ \A i \in 1..call.data :
              buf[i] = IF call.receive_data
                       THEN Response(hw.miso, call.buf0[i])
                       ELSE call.buf0[i]

\* a write of TXDR takes the original byte at the send cursor; a store goes to
\* the receive cursor, behind the send cursor, and changes no other position
C16_Step ==
    /\ (SendStep /\ txfifo' # txfifo) =>
          /\ txfifo' = Append(txfifo, call.buf0[call.wptr + 1])
          /\ call'.wptr = call.wptr + 1
          /\ buf' = buf
    /\ (InTransfer /\ pc = "t_rx" /\ pc' = "t_loop") =>
          /\ call.data < call.wptr
          /\ call'.wptr = call.wptr
          /\ \A i \in 1..Len(buf) : i # call.data + 1 => buf'[i] = buf[i]
          /\ call.receive_data => buf'[call.data + 1] = Head(rxfifo)

\* C16: data <= wptr <= end throughout spi_transfer; with receive_data set a
\* received byte is stored only at a position whose original byte was already
\* written to TXDR; the bytes written to TXDR are the buffer's initial
\* contents in order, never a received byte; the i-th received byte is
\* stored at position i.
C16_InPlace == []C16_Cursors /\ [][C16_Step]_vars

\* mid-transfer against a device that answers with other bytes: received bytes
\* already stored behind the receive cursor, bytes in flight, bytes left to send
C16_Witness ==
    /\ InTransfer /\ call.receive_data /\ hw.miso = "invert"
    /\ 0 < call.data /\ call.data < call.wptr /\ call.wptr < call.end
    /\ buf[call.data] # call.buf0[call.data]
    /\ buf[call.wptr + 1] = call.buf0[call.wptr + 1]

(***************************************************************************)
(* The registers spi_prepare programs, under SpecRegs.                     *)
(***************************************************************************)
\* the value of the three-bit field of reg that starts at bit pos
Field3(reg, pos) ==
    (IF pos \in reg THEN 1 ELSE 0) + (IF pos + 1 \in reg THEN 2 ELSE 0)
        + (IF pos + 2 \in reg THEN 4 ELSE 0)

\* the bits of the baud-rate field MBR of CFG1
MbrBits == {SPI_CFG1_MBR_Pos, SPI_CFG1_MBR_Pos + 1, SPI_CFG1_MBR_Pos + 2}

\* CFG1 and CFG2 of the prepared peripheral from the first step of the call on
C17_Values ==
    InPrepare =>
        LET r == regs[call.cfg.spi]
            mode == call.cfg.mode
        IN /\ Field3(r.CFG1, SPI_CFG1_MBR_Pos) = call.cfg.div
           \* DSIZE = 7: frames of 8 bits; nothing else set in CFG1
           /\ r.CFG1 \ MbrBits = {SPI_CFG1_DSIZE_Pos, SPI_CFG1_DSIZE_Pos + 1,
                                  SPI_CFG1_DSIZE_Pos + 2}
           /\ (SPI_CFG2_CPHA_Pos \in r.CFG2) <=> (mode % 2 = 1)
           /\ (SPI_CFG2_CPOL_Pos \in r.CFG2) <=> ((mode \div 2) % 2 = 1)
           /\ r.CFG2 \ {SPI_CFG2_CPHA_Pos, SPI_CFG2_CPOL_Pos}
                 = {SPI_CFG2_MASTER_Pos, SPI_CFG2_SSM_Pos, SPI_CFG2_SSOE_Pos,
                    SPI_CFG2_AFCNTR_Pos}
           /\ effects = << << "write", call.cfg.spi, "CFG1" >>,
                           << "read", call.cfg.spi, "CFG2" >>,
                           << "write", call.cfg.spi, "CFG2" >> >>

\* the CFG2 value the call read is the one the register held before the call
C17_Step ==
    (pc = "idle" /\ pc' = "p_time") =>
        /\ call'.old = regs[call'.cfg.spi].CFG2
        /\ call'.diff = Xor(call'.old, regs'[call'.cfg.spi].CFG2)

\* C17: after spi_prepare(config), whatever the registers held before, CFG1
\* holds config.div in its baud-rate field with frames of 8 bits, and CFG2
\* holds exactly CPHA = bit 0 of mode, CPOL = bit 1 of mode, and MASTER, SSM,
\* SSOE and AFCNTR set, every other bit clear; CFG1 is written before CFG2
\* and the old CFG2 is read before CFG2 is overwritten.
C17_Registers == []C17_Values /\ [][C17_Step]_vars

\* a prepare for mode 3 and divisor 7 has returned on a peripheral that was
\* programmed for mode 0 before
C17_Witness ==
    /\ InPrepare /\ pc = "idle"
    /\ call.cfg.mode = 3 /\ call.cfg.div = 7
    /\ call.old = {SPI_CFG2_MASTER_Pos, SPI_CFG2_SSM_Pos, SPI_CFG2_SSOE_Pos,
                   SPI_CFG2_AFCNTR_Pos}
    /\ SPI_CFG2_CPOL_Pos \in regs[call.cfg.spi].CFG2
    /\ call.waits = 1

(***************************************************************************)
(* The activation sequence and the pin routing, under SpecSetup.           *)
(***************************************************************************)
\* the table entry of the bus index passed to the last spi_setup
SetupEntry == spi_bus(macros)[call.bus + 1]

\* the pins of entry e are routed to its alternate function, pull-up on MISO
Routed(e) ==
    /\ gpio[e.miso_pin] = << e.function, 1 >>
    /\ gpio[e.mosi_pin] = << e.function, 0 >>
    /\ gpio[e.sck_pin] = << e.function, 0 >>

\* no pin of entry e was ever configured
Unrouted(e) ==
    gpio[e.miso_pin] = << >> /\ gpio[e.mosi_pin] = << >> /\ gpio[e.sck_pin] = << >>

\* the side effects of an activating spi_setup: the clock first, then the
\* three pins of the entry, pull-up for MISO only
ActivationOf(e) ==
    << << "enable_pclock", e.spi >>,
       << "gpio_peripheral", e.miso_pin, e.function, 1 >>,
       << "gpio_peripheral", e.mosi_pin, e.function, 0 >>,
       << "gpio_peripheral", e.sck_pin, e.function, 0 >> >>

\* C18 as stated: an activating spi_setup enables the clock before any pin,
\* then configures the pins of the bus index passed in, pull-up for MISO
\* only; and after any spi_setup(bus) has returned the pins of that bus
\* entry are routed to its peripheral.
C18_AlwaysRouted ==
    SetupReturned =>
        /\ effects # << >> => effects = ActivationOf(SetupEntry)
        /\ Routed(SetupEntry)

\* after spi_setup: the call either activated with the entry's pins or did
\* nothing; each active peripheral has the pins of exactly one of its entries
\* routed, the others untouched
C18_State ==
    /\ SetupReturned =>
          /\ effects \in {<< >>, ActivationOf(SetupEntry)}
          /\ effects # << >> => Routed(SetupEntry)
          /\ SetupEntry.spi \in pclock
    /\ \A s \in Peripherals :
          LET mine == {k \in 1..Len(spi_bus(macros)) : spi_bus(macros)[k].spi = s}
              routed == {k \in mine : Routed(spi_bus(macros)[k])}
          IN /\ Cardinality(routed) = IF s \in pclock THEN 1 ELSE 0
             /\ \A k \in mine \ routed : Unrouted(spi_bus(macros)[k])

\* a spi_setup on an active peripheral configures no pin; one on an inactive
\* peripheral performs the activation of its own entry
C18_Step ==
    (call'.op = "spi_setup" /\ halted' = "" /\ pc = "idle" /\ halted = "") =>
        IF config'.spi \in pclock
        THEN gpio' = gpio /\ effects' = << >>
        ELSE effects' = ActivationOf(SetupEntry') /\ Routed(SetupEntry)'

\* C18 (amended): an activating spi_setup enables the clock before any pin,
\* then configures the pins of the bus index passed in with the entry's
\* alternate function, pull-up for MISO only, and on its return those pins
\* are routed; a spi_setup on a peripheral that is already active configures
\* no pin, so the routed pins of a peripheral are those of the first bus
\* index set up on it and the pins of its other entries stay unrouted.
C18_RoutedOnActivation == []C18_State /\ [][C18_Step]_vars

\* spi1 is set up after spi1a: SPI1 runs on spi1a's pins, spi1's own pins
\* were never configured
C18_Witness ==
    /\ SetupReturned /\ call.bus = 1
    /\ effects = << >>
    /\ Unrouted(SetupEntry)
    /\ Routed(spi_bus(macros)[3])
    /\ spi_bus(macros)[3].spi = SetupEntry.spi

(***************************************************************************)
(* The mode and divisor a transfer runs with, under Spec.                  *)
(***************************************************************************)
\* the configuration registers CFG1 and CFG2 of peripheral s
CfgRegs(s) == << regs[s].CFG1, regs[s].CFG2 >>

\* a step of spi_transfer, from its entry to its return, or of the
\* peripheral while the call runs
TransferStep == call'.op = "spi_transfer" /\ (pc # "idle" \/ pc' # "idle")

\* writes of CFG1 or CFG2 among the side effects of the call
CfgWrites ==
    {i \in 1..Len(effects) : effects[i][1] = "write" /\ effects[i][3] \in {"CFG1", "CFG2"}}

\* no step of a transfer touches CFG1 or CFG2, and the only step that changes
\* them is the entry of spi_prepare, which loads the values of its config
C19_Step ==
    /\ TransferStep =>
          /\ \A s \in Peripherals : CfgRegs(s)' = CfgRegs(s)
          /\ CfgWrites' = {}
    /\ \A s \in Peripherals :
          CfgRegs(s)' # CfgRegs(s) =>
              /\ pc = "idle" /\ pc' = "p_time"
              /\ call'.op = "spi_prepare" /\ call'.cfg.spi = s
              /\ CfgRegs(s)' = << Cfg1Value(call'.cfg.div), Cfg2Value(call'.cfg.mode) >>

\* C19: spi_transfer never writes CFG1 or CFG2: the divisor and mode live
\* during a transfer are those of the most recent spi_prepare on the
\* peripheral, not those of the config passed to spi_transfer, so a transfer
\* with a config of another mode and no spi_prepare in between runs with the
\* settings prepared before.
C19_PreparedSettings == [][C19_Step]_vars

\* a transfer called with a config for mode 0 has exchanged its bytes and
\* returned while CFG2 still held mode 1 from the last spi_prepare
C19_Witness ==
    /\ Returned
    /\ call.len >= 1 /\ call.nrx = call.len
    /\ call.cfg.mode = 0
    /\ CfgRegs(call.cfg.spi) = << Cfg1Value(call.cfg.div), Cfg2Value(1) >>

====
